---- MODULE Spec2Model ----
(***************************************************************************)
(* A model of app.py: the request client call_openrouter, the dual-task    *)
(* dispatcher process_tasks, the model directory lookup fetch_models and   *)
(* the Streamlit script that drives them.                                  *)
(*                                                                         *)
(* Python strings are sequences of one-character strings, so that the      *)
(* substring tests and .lower() of the error normalisation are computed.   *)
(* A CJK glyph of a message is one element, written as its pinyin.         *)
(* Python values carry their type: [type |-> "str", val |-> ...],          *)
(* [type |-> "NoneType"], [type |-> "dict", ...], [type |-> "list", ...].  *)
(***************************************************************************)
EXTENDS Integers, Sequences, FiniteSets, TLC

\* ---------------------------------------------------------------- bounds

\* The number of process_tasks invocations one behaviour follows.
MaxDispatches == 2


\* ------------------------------------------------------- Python strings

UpperToLower == [A |-> "a", B |-> "b", C |-> "c", D |-> "d", E |-> "e", F |-> "f", G |-> "g", H |-> "h", I |-> "i", J |-> "j", K |-> "k", L |-> "l", M |-> "m", N |-> "n", O |-> "o", P |-> "p", Q |-> "q", R |-> "r", S |-> "s", T |-> "t", U |-> "u", V |-> "v", W |-> "w", X |-> "x", Y |-> "y", Z |-> "z"]

\* str.lower() on one character.
LowerChar(c) == IF c \in DOMAIN UpperToLower THEN UpperToLower[c] ELSE c

\* str.lower()
Lower(s) == [i \in 1..Len(s) |-> LowerChar(s[i])]

\* The Python test `sub in s` on strings.
Contains(s, sub) ==
    \E i \in 0..(Len(s) - Len(sub)) :
        \A j \in 1..Len(sub) : s[i + j] = sub[j]

IsSpace(c) == c \in {" ", "\t", "\n"}

\* str.strip(): leading and trailing white space removed.
Strip(s) ==
    LET keep == {i \in 1..Len(s) : ~IsSpace(s[i])}
    IN  IF keep = {} THEN <<>>
        ELSE LET lo == CHOOSE i \in keep : \A j \in keep : i <= j
                 hi == CHOOSE i \in keep : \A j \in keep : j <= i
             IN  SubSeq(s, lo, hi)

Reverse(s) == [i \in 1..Len(s) |-> s[Len(s) + 1 - i]]

PyNone == [type |-> "NoneType"]
PyStr(s) == [type |-> "str", val |-> s]
PyList(xs) == [type |-> "list", val |-> xs]
IsStr(v) == v.type = "str"

\* ------------------------------------------------------------ constants

\* The markers the error normalisation looks for (lines 105-111).
Str401 == <<"4","0","1">>
StrUnauthorized == <<"U","n","a","u","t","h","o","r","i","z","e","d">>
Str402 == <<"4","0","2">>
StrPayment == <<"P","a","y","m","e","n","t">>
Str429 == <<"4","2","9">>
StrRate == <<"r","a","t","e">>
StrTimeout == <<"t","i","m","e","o","u","t">>

\* The four normalised messages (lines 106, 108, 110, 112) and the generic
\* marker of line 116, glyph by glyph.
\* "API Key wu xiao huo yi guo qi": the key is invalid or has expired.
MsgInvalidKey == <<"A","P","I"," ","K","e","y"," ","wu2","xiao4","huo4","yi3","guo4","qi1">>
\* "zhang hu yu e bu zu, qing chong zhi": the balance is insufficient.
MsgNoBalance == <<"zhang4","hu4","yu2","e2","bu4","zu2","comma","qing3","chong1","zhi2">>
\* "qing qiu pin lv guo gao, qing shao hou chong shi": throttled, retry later.
MsgThrottled == <<"qing3","qiu2","pin2","lv4","guo4","gao1","comma","qing3","shao1","hou4","chong2","shi4">>
\* "qing qiu chao shi, qing chong shi": the request timed out.
MsgTimedOut == <<"qing3","qiu2","chao1","shi2","comma","qing3","chong2","shi4">>
\* "cuo wu: ": the generic error marker.
ErrorMarker == <<"cuo4","wu4",":"," ">>

\* The messages of the exceptions Python raises on response.choices[0].message.content.
TextIndexError == <<"l","i","s","t"," ","i","n","d","e","x"," ","o","u","t"," ","o","f"," ","r","a","n","g","e">>
TextNotSubscriptable == <<"'","N","o","n","e","T","y","p","e","'"," ","o","b","j","e","c","t"," ","i","s"," ","n","o","t"," ","s","u","b","s","c","r","i","p","t","a","b","l","e">>
TextNoAttribute == <<"'","N","o","n","e","T","y","p","e","'"," ","o","b","j","e","c","t"," ","h","a","s"," ","n","o"," ","a","t","t","r","i","b","u","t","e"," ","'","c","o","n","t","e","n","t","'">>

\* ------------------------------------------- the provider (environment)

\* str(e) of the failures the chat-completion call can end with, each with
\* its cause: an HTTP status, a timeout, or another transport or provider fault.
TextCode401 == <<"E","r","r","o","r"," ","c","o","d","e",":"," ","4","0","1">>
TextUnauthorized == <<"U","n","a","u","t","h","o","r","i","z","e","d">>
TextCode402 == <<"E","r","r","o","r"," ","c","o","d","e",":"," ","4","0","2">>
TextPayment == <<"P","a","y","m","e","n","t"," ","R","e","q","u","i","r","e","d">>
TextCode429 == <<"E","r","r","o","r"," ","c","o","d","e",":"," ","4","2","9">>
TextRateLimit == <<"R","a","t","e"," ","l","i","m","i","t"," ","e","x","c","e","e","d","e","d">>
TextTimeout == <<"R","e","q","u","e","s","t"," ","T","i","m","e","o","u","t">>
TextCode500 == <<"E","r","r","o","r"," ","c","o","d","e",":"," ","5","0","0">>
TextConnection == <<"C","o","n","n","e","c","t","i","o","n"," ","e","r","r","o","r",".">>
TextGenerate == <<"F","a","i","l","e","d"," ","t","o"," ","g","e","n","e","r","a","t","e">>

ProviderError(cause, text) == [kind |-> "error", cause |-> cause, text |-> text]

\* What client.chat.completions.create can raise.
ProviderErrors ==
    { ProviderError("http401", TextCode401), ProviderError("http401", TextUnauthorized),
      ProviderError("http402", TextCode402), ProviderError("http402", TextPayment),
      ProviderError("http429", TextCode429), ProviderError("http429", TextRateLimit),
      ProviderError("timeout", TextTimeout),
      ProviderError("other", TextCode500), ProviderError("other", TextConnection),
      ProviderError("other", TextGenerate) }

\* A 2xx response object: choices is a list of choices or None, a choice's
\* message is a message or None, a message's content is a string or None.
Response(choices) == [kind |-> "response", choices |-> choices]
Choice(message) == [message |-> message]
Message(content) == [type |-> "message", content |-> content]

\* The inputs of the end-to-end scenario.
EchoPrompt == <<"E","c","h","o"," ","t","h","e"," ","t","e","x","t">>
ReversePrompt == <<"R","e","v","e","r","s","e"," ","t","h","e"," ","t","e","x","t">>
HelloWorld == <<"H","e","l","l","o"," ","w","o","r","l","d">>
TestKey == <<"s","k","-","o","r","-","v","1">>

\* The text a provider generates for a request: it follows the system
\* instruction (echo, reverse) on the user content.
Generated(request) ==
    LET system == request.messages[1].content
        user   == request.messages[2].content
    IN  IF system = ReversePrompt THEN Reverse(user) ELSE user

\* Everything the provider can answer to one request.
ProviderOutcomes(request) ==
    { Response(PyList(<<Choice(Message(PyStr(Generated(request))))>>)),
      Response(PyList(<<Choice(Message(PyNone))>>)),
      Response(PyList(<<Choice(PyNone)>>)),
      Response(PyList(<<>>)),
      Response(PyNone) }
    \cup ProviderErrors

\* --------------------------------------------------- call_openrouter

Raise(cls, msg) == [raised |-> TRUE, exc |-> [cls |-> cls, msg |-> msg]]
Return(value) == [raised |-> FALSE, value |-> value]

\* The request of lines 88-95.
ChatRequest(key, model, system_prompt, user_content) ==
    [ api_key |-> key, model |-> model,
      messages |-> << [role |-> "system", content |-> system_prompt],
                      [role |-> "user", content |-> user_content] >>,
      temperature |-> "0.7" ]

\* response.choices[0].message.content, as Python evaluates it.
FirstContent(response) ==
    IF response.choices = PyNone THEN Raise("TypeError", TextNotSubscriptable)
    ELSE IF Len(response.choices.val) = 0 THEN Raise("IndexError", TextIndexError)
    ELSE IF response.choices.val[1].message = PyNone
         THEN Raise("AttributeError", TextNoAttribute)
    ELSE Return(response.choices.val[1].message.content)

\* The try block, lines 79-100, on the provider's outcome.
TryBody(outcome) ==
    IF outcome.kind = "error"
    THEN Raise("APIError", outcome.text)
    ELSE LET c == FirstContent(outcome)
         IN  IF c.raised THEN c
             ELSE Return([type |-> "dict", success |-> TRUE, content |-> c.value])

\* A handler that catches the client's own errors only.
CatchesApiOnly(cls) == cls = "APIError"

\* The classes `except Exception` catches: every exception but the
\* BaseException-only ones (KeyboardInterrupt, SystemExit, GeneratorExit).
Catches(cls) == cls \notin {"KeyboardInterrupt", "SystemExit", "GeneratorExit"}

\* Lines 103-112: the message shown for str(e).
Normalize(error_msg) ==
    IF Contains(error_msg, Str401) \/ Contains(error_msg, StrUnauthorized)
    THEN MsgInvalidKey
    ELSE IF Contains(error_msg, Str402) \/ Contains(error_msg, StrPayment)
    THEN MsgNoBalance
    ELSE IF Contains(error_msg, Str429) \/ Contains(Lower(error_msg), StrRate)
    THEN MsgThrottled
    ELSE IF Contains(Lower(error_msg), StrTimeout)
    THEN MsgTimedOut
    ELSE error_msg

\* Lines 102-117: the except clause.
Except(exc) ==
    IF Catches(exc.cls)
    THEN Return([type |-> "dict", success |-> FALSE,
                 content |-> PyStr(ErrorMarker \o Normalize(exc.msg))])
    ELSE Raise(exc.cls, exc.msg)

\* call_openrouter on the provider's outcome: what the call returns or raises.
call_openrouter(outcome) ==
    LET body == TryBody(outcome)
    IN  IF body.raised THEN Except(body.exc) ELSE body

\* ------------------------------------------------------------- state

VARIABLES
    \* process_tasks and its two workers
    pc,          \* where process_tasks is: "idle", "waiting", "returned", "raised"
    args,        \* the five arguments of the running invocation
    futures,     \* future (1, 2 in submission order) -> its state and outcome
    requests,    \* future -> the request its call sent, or None
    answers,     \* future -> what the provider answered, or None
    results,     \* the results dict of line 122
    yielded,     \* the futures as_completed has yielded, in arrival order
    ret,         \* the returned tuple, or None
    ncalls,      \* future -> how often call_openrouter was entered
    nrequests,   \* future -> how many provider requests were sent
    nwrites,     \* task name -> how often its results slot was assigned
    dispatches,  \* the invocations so far
    \* the script (one Streamlit run per interaction)
    api_key, article, prompt_a, prompt_b, process_btn,
    available_models, selected_model,
    lookup,      \* the last fetch_models call: what it met and what it returned
    prev_lookup, \* the fetch_models call before it
    last_fallback, \* what the latest failed call before the last one returned, or None
    page         \* what the last run of the script ended with

coreVars == <<pc, args, futures, requests, answers, results, yielded, ret,
              ncalls, nrequests, nwrites, dispatches>>
appVars == <<api_key, article, prompt_a, prompt_b, process_btn,
             available_models, selected_model, lookup, prev_lookup, last_fallback, page>>
vars == <<coreVars, appVars>>

\* ---------------------------------------------------- process_tasks

\* The two futures, in the order lines 126 and 129 submit them.
Futures == {1, 2}

\* The futures dict of lines 125-132: future -> task name.
FutureNames == <<"task_a", "task_b">>
TaskNames == {"task_a", "task_b"}

\* The arguments each submit passes to call_openrouter (lines 126-131).
Submitted(a) ==
    << <<a.api_key, a.model, a.prompt_a, a.article>>,
       <<a.api_key, a.model, a.prompt_b, a.article>> >>

\* The invocations followed: one key, one model, the article and the two
\* instructions of the end-to-end scenario in either slot.
Invocations ==
    [ api_key : {TestKey}, model : {"test-model"}, article : {HelloWorld},
      prompt_a : {EchoPrompt, ReversePrompt}, prompt_b : {EchoPrompt, ReversePrompt} ]

NoArgs == [api_key |-> <<>>, model |-> "", article |-> <<>>, prompt_a |-> <<>>, prompt_b |-> <<>>]

NewFuture == [state |-> "PENDING", outcome |-> PyNone]

\* A worker that runs a failed call again.
FinishedOrRetry(r) ==
    IF ~r.raised /\ ~r.value.success
    THEN [state |-> "PENDING", outcome |-> PyNone]
    ELSE [state |-> "FINISHED", outcome |-> r]

\* A future whose call ended with r: set_result or set_exception.
Finished(r) == [state |-> "FINISHED", outcome |-> r]

\* Results bound to the slots in arrival order.
TaskNameByArrival(f, arrived) == FutureNames[Len(arrived) + 1]

\* The task name line 135 reads for the future as_completed yielded.
TaskNameOf(f, arrived) == FutureNames[f]

\* A failure that is written to every slot.
SlotAssignFailureToAll(slots, task_name, value) ==
    IF value.success THEN [slots EXCEPT ![task_name] = value]
    ELSE [t \in DOMAIN slots |-> value]

\* Line 136: results[task_name] = future.result().
SlotAssign(slots, task_name, value) == [slots EXCEPT ![task_name] = value]

\* A loop that stops at the first completion.
LoopDoneAtFirst(arrived) == Len(arrived) >= 1

\* A loop that waits for one completion more than there are futures.
LoopDoneOneMore(arrived) == Len(arrived) > Cardinality(Futures)

\* as_completed is exhausted once it has yielded every future of the dict.
LoopDone(arrived) == Len(arrived) = Cardinality(Futures)

\* Leaving the with block of line 124 is executor.shutdown(wait=True): every
\* submitted work item has run to its end.
PoolIdle(fs) == \A f \in Futures : fs[f].state = "FINISHED"

\* Line 138.
Pair(slots) == [type |-> "tuple", val |-> <<slots["task_a"], slots["task_b"]>>]

InSeq(x, s) == \E i \in 1..Len(s) : s[i] = x

\* process_tasks is called with five arguments: lines 122-132, the results
\* dict and the two submits.
Dispatch(a) ==
    /\ pc = "idle"
    /\ dispatches < MaxDispatches
    /\ pc' = "waiting"
    /\ args' = a
    /\ futures' = [f \in Futures |-> NewFuture]
    /\ requests' = [f \in Futures |-> PyNone]
    /\ answers' = [f \in Futures |-> PyNone]
    /\ results' = [t \in TaskNames |-> PyNone]
    /\ yielded' = <<>>
    /\ ret' = PyNone
    /\ ncalls' = [f \in Futures |-> 0]
    /\ nrequests' = [f \in Futures |-> 0]
    /\ nwrites' = [t \in TaskNames |-> 0]
    /\ dispatches' = dispatches + 1
    /\ UNCHANGED appVars

\* A worker thread takes the work item of future f and enters
\* call_openrouter: lines 79-95, the client and the blocking request.
StartCall(f) ==
    /\ pc = "waiting"
    /\ futures[f].state = "PENDING"
    /\ LET a == Submitted(args)[f]
       IN  requests' = [requests EXCEPT ![f] = ChatRequest(a[1], a[2], a[3], a[4])]
    /\ futures' = [futures EXCEPT ![f].state = "RUNNING"]
    /\ ncalls' = [ncalls EXCEPT ![f] = @ + 1]
    /\ nrequests' = [nrequests EXCEPT ![f] = @ + 1]
    /\ UNCHANGED <<pc, args, answers, results, yielded, ret, nwrites, dispatches>>
    /\ UNCHANGED appVars

\* The provider answers the request of future f, call_openrouter returns
\* (lines 97-117) and the worker completes the future.
Complete(f) ==
    /\ futures[f].state = "RUNNING"
    /\ \E outcome \in ProviderOutcomes(requests[f]) :
          /\ answers' = [answers EXCEPT ![f] = outcome]
          /\ futures' = [futures EXCEPT ![f] = Finished(call_openrouter(outcome))]
    /\ UNCHANGED <<pc, args, requests, results, yielded, ret, ncalls, nrequests,
                   nwrites, dispatches>>
    /\ UNCHANGED appVars

\* One iteration of the loop of lines 134-136: as_completed yields a
\* finished future, and future.result() returns its value or raises again
\* what the call raised.
Collect(f) ==
    /\ pc = "waiting"
    /\ futures[f].state = "FINISHED"
    /\ ~InSeq(f, yielded)
    /\ ~LoopDone(yielded)
    /\ yielded' = Append(yielded, f)
    /\ IF futures[f].outcome.raised
       THEN /\ pc' = "raised"
            /\ UNCHANGED <<results, nwrites>>
       ELSE /\ pc' = pc
            /\ results' = SlotAssign(results, TaskNameOf(f, yielded),
                                     futures[f].outcome.value)
            /\ nwrites' = [nwrites EXCEPT ![TaskNameOf(f, yielded)] = @ + 1]
    /\ UNCHANGED <<args, futures, requests, answers, ret, ncalls, nrequests, dispatches>>
    /\ UNCHANGED appVars

\* The loop is over, the with block shuts the executor down (every worker
\* has ended), and line 138 returns the pair.
ReturnPair ==
    /\ pc = "waiting"
    /\ LoopDone(yielded)
    /\ PoolIdle(futures)
    /\ ret' = Pair(results)
    /\ pc' = "returned"
    /\ UNCHANGED <<args, futures, requests, answers, results, yielded, ncalls,
                   nrequests, nwrites, dispatches>>
    /\ UNCHANGED appVars

\* The caller has taken the pair (or the exception); the locals of the
\* invocation are gone.
Finish ==
    /\ pc \in {"returned", "raised"}
    /\ pc' = "idle"
    /\ args' = NoArgs
    /\ futures' = [f \in Futures |-> NewFuture]
    /\ requests' = [f \in Futures |-> PyNone]
    /\ answers' = [f \in Futures |-> PyNone]
    /\ results' = [t \in TaskNames |-> PyNone]
    /\ yielded' = <<>>
    /\ ret' = PyNone
    /\ ncalls' = [f \in Futures |-> 0]
    /\ nrequests' = [f \in Futures |-> 0]
    /\ nwrites' = [t \in TaskNames |-> 0]
    /\ UNCHANGED dispatches
    /\ UNCHANGED appVars

\* ------------------------------------------------------ fetch_models

\* Lines 20-24.
DEFAULT_MODELS ==
    <<"deepseek/deepseek-chat", "anthropic/claude-3.5-sonnet", "openai/gpt-4o">>

\* The model identifiers a catalogue can list, in the order Python's string
\* comparison puts them.
IdOrder ==
    <<"anthropic/claude-3.5-sonnet", "deepseek/deepseek-chat", "google/gemini-pro",
      "openai/gpt-4o">>

Rank(id) == CHOOSE i \in 1..Len(IdOrder) : IdOrder[i] = id

RECURSIVE Insert(_, _)
Insert(x, s) ==
    IF s = <<>> THEN <<x>>
    ELSE IF Rank(x) < Rank(Head(s)) THEN <<x>> \o s
    ELSE <<Head(s)>> \o Insert(x, Tail(s))

\* sorted(models), line 69.
RECURSIVE Sorted(_)
Sorted(s) == IF s = <<>> THEN <<>> ELSE Insert(Head(s), Sorted(Tail(s)))

Entry(id) == [type |-> "dict", has_id |-> TRUE, id |-> id]
EntryNoId == [type |-> "dict", has_id |-> FALSE, id |-> ""]
JsonObject(has_data, data) == [type |-> "dict", has_data |-> has_data, data |-> data]
Body(is_json, value) == [kind |-> "response", is_json |-> is_json, value |-> value]
LookupError(cause) == [kind |-> "error", cause |-> cause]

\* The catalogues a successful lookup can meet.
Catalogues ==
    { <<Entry("openai/gpt-4o"), Entry("anthropic/claude-3.5-sonnet")>>,
      <<Entry("google/gemini-pro")>>,
      <<Entry("deepseek/deepseek-chat"), Entry("anthropic/claude-3.5-sonnet"),
        Entry("openai/gpt-4o")>> }

\* The lookups that succeed: a JSON object whose data lists models, or none.
GoodLookups ==
    {Body(TRUE, JsonObject(TRUE, PyList(c))) : c \in Catalogues}
    \cup {Body(TRUE, JsonObject(TRUE, PyList(<<>>)))}

\* The lookups that fail: requests.get raises (network), raise_for_status
\* raises (401, 500), or the body is malformed (not JSON, a JSON array, an
\* object without data, data null, an entry without id).
BadLookups ==
    { LookupError("network"), LookupError("http401"), LookupError("http500"),
      Body(FALSE, PyNone),
      Body(TRUE, PyList(<<>>)),
      Body(TRUE, JsonObject(FALSE, PyNone)),
      Body(TRUE, JsonObject(TRUE, PyNone)),
      Body(TRUE, JsonObject(TRUE, PyList(<<Entry("openai/gpt-4o"), EntryNoId>>))) }

DirectoryOutcomes == GoodLookups \cup BadLookups

\* Lines 54-69, the try block of fetch_models, on what the lookup meets.
FetchBody(d) ==
    IF d.kind = "error" THEN Raise("RequestException", <<>>)
    ELSE IF ~d.is_json THEN Raise("ValueError", <<>>)
    ELSE IF d.value.type # "dict" THEN Raise("AttributeError", <<>>)
    ELSE LET data == IF d.value.has_data THEN d.value.data ELSE PyList(<<>>)
         IN  IF data.type # "list" THEN Raise("TypeError", <<>>)
             ELSE IF \E i \in 1..Len(data.val) : ~data.val[i].has_id
             THEN Raise("KeyError", <<>>)
             ELSE LET models == [i \in 1..Len(data.val) |-> data.val[i].id]
                  IN  Return(IF models # <<>> THEN Sorted(models) ELSE DEFAULT_MODELS)

\* A fallback that is sorted as the fetched list is.
FetchExceptSorted(exc) ==
    [raised |-> FALSE, value |-> Sorted(DEFAULT_MODELS), warned |-> TRUE]

\* Lines 71-73: the warning in the sidebar and the fallback list.
FetchExcept(exc) ==
    IF Catches(exc.cls)
    THEN [raised |-> FALSE, value |-> DEFAULT_MODELS, warned |-> TRUE]
    ELSE [raised |-> TRUE, exc |-> exc, warned |-> FALSE]

\* fetch_models on what the lookup meets: the list returned, or the exception.
fetch_models(d) ==
    LET body == FetchBody(d)
    IN  IF body.raised THEN FetchExcept(body.exc)
        ELSE [raised |-> FALSE, value |-> body.value, warned |-> FALSE]

\* ---------------------------------------------------------- the script

\* Lines 27-48: the default instructions, each an opaque text.
DEFAULT_PROMPT_A == <<"DEFAULT_PROMPT_A">>
DEFAULT_PROMPT_B == <<"DEFAULT_PROMPT_B">>

\* What the user can type into the widgets.
KeyInputs == {<<>>, TestKey}
ArticleInputs == {<<>>, <<" ", "\n">>, HelloWorld}
PromptAInputs == {DEFAULT_PROMPT_A, EchoPrompt}
PromptBInputs == {DEFAULT_PROMPT_B, ReversePrompt}

\* The parameters of process_tasks, line 120: none has a default.
ProcessTasksParams == <<"api_key", "model", "article", "prompt_a", "prompt_b">>

\* Python binds the positional arguments of a call to the parameters.
Bind(params, positional) ==
    IF Len(positional) = Len(params)
    THEN Return([i \in 1..Len(params) |-> positional[i]])
    ELSE Raise("TypeError", <<>>)

\* The arguments the handler passes, lines 235-237.
HandlerArgs(key, model, text, pa, pb) == <<key, model, text>>

\* Lines 226-256: what a run of the script ends with.  The success notice
\* and the two columns (lines 239-256) follow the return of process_tasks.
Handler(btn, key, model, text, pa, pb) ==
    IF ~btn THEN "idle"
    ELSE IF key = <<>> THEN "error_api_key"
    ELSE IF Strip(text) = <<>> THEN "error_article"
    ELSE IF Bind(ProcessTasksParams, HandlerArgs(key, model, text, pa, pb)).raised
         THEN "TypeError"
         ELSE "rendered"

\* st.selectbox, lines 165-169: the user's choice among the options, the
\* first option (index=0) when the choice is not among them.
Selectbox(options, choice) ==
    IF InSeq(choice, options) THEN choice ELSE options[1]

NoLookup == [called |-> FALSE, failed |-> FALSE]
LookupRecord(d, r) ==
    [ called |-> TRUE, met |-> d, failed |-> d \in BadLookups, raised |-> r.raised,
      returned |-> IF r.raised THEN <<>> ELSE r.value, warned |-> r.warned ]

\* One run of the script, top to bottom, with the widgets holding key, text,
\* pa, pb, the button btn and the user's model choice: lines 144-256.
Script(key, text, pa, pb, btn, choice) ==
    /\ api_key' = key
    /\ article' = text
    /\ prompt_a' = pa
    /\ prompt_b' = pb
    /\ process_btn' = btn
    /\ IF key # <<>>
       THEN \E d \in DirectoryOutcomes :
              LET r == fetch_models(d)
              IN  /\ lookup' = LookupRecord(d, r)
                  /\ prev_lookup' = lookup
                  /\ last_fallback' = IF lookup.failed /\ ~lookup.raised
                                       THEN PyList(lookup.returned)
                                       ELSE last_fallback
                  /\ IF r.raised
                     THEN /\ page' = "exception"
                          /\ UNCHANGED <<available_models, selected_model>>
                     ELSE /\ available_models' = r.value
                          /\ selected_model' = Selectbox(r.value, choice)
                          /\ page' = Handler(btn, key, Selectbox(r.value, choice),
                                             text, pa, pb)
       ELSE /\ available_models' = DEFAULT_MODELS
            /\ selected_model' = Selectbox(DEFAULT_MODELS, choice)
            /\ page' = Handler(btn, key, Selectbox(DEFAULT_MODELS, choice), text, pa, pb)
            /\ UNCHANGED <<lookup, prev_lookup, last_fallback>>

EditApiKey(key) ==
    /\ key # api_key
    /\ Script(key, article, prompt_a, prompt_b, FALSE, selected_model)
    /\ UNCHANGED coreVars

EditArticle(text) ==
    /\ text # article
    /\ Script(api_key, text, prompt_a, prompt_b, FALSE, selected_model)
    /\ UNCHANGED coreVars

EditPromptA(pa) ==
    /\ pa # prompt_a
    /\ Script(api_key, article, pa, prompt_b, FALSE, selected_model)
    /\ UNCHANGED coreVars

EditPromptB(pb) ==
    /\ pb # prompt_b
    /\ Script(api_key, article, prompt_a, pb, FALSE, selected_model)
    /\ UNCHANGED coreVars

SelectModel(choice) ==
    /\ InSeq(choice, available_models)
    /\ choice # selected_model
    /\ Script(api_key, article, prompt_a, prompt_b, FALSE, choice)
    /\ UNCHANGED coreVars

ClickProcess ==
    /\ Script(api_key, article, prompt_a, prompt_b, TRUE, selected_model)
    /\ UNCHANGED coreVars

\* ------------------------------------------------------ specifications

\* The first run of the script: empty widgets, the defaults.
Init ==
    /\ pc = "idle"
    /\ args = NoArgs
    /\ futures = [f \in Futures |-> NewFuture]
    /\ requests = [f \in Futures |-> PyNone]
    /\ answers = [f \in Futures |-> PyNone]
    /\ results = [t \in TaskNames |-> PyNone]
    /\ yielded = <<>>
    /\ ret = PyNone
    /\ ncalls = [f \in Futures |-> 0]
    /\ nrequests = [f \in Futures |-> 0]
    /\ nwrites = [t \in TaskNames |-> 0]
    /\ dispatches = 0
    /\ api_key = <<>>
    /\ article = <<>>
    /\ prompt_a = DEFAULT_PROMPT_A
    /\ prompt_b = DEFAULT_PROMPT_B
    /\ process_btn = FALSE
    /\ available_models = DEFAULT_MODELS
    /\ selected_model = DEFAULT_MODELS[1]
    /\ lookup = NoLookup
    /\ prev_lookup = NoLookup
    /\ last_fallback = PyNone
    /\ page = "idle"

\* process_tasks called as its signature asks, and its two workers.
Next ==
    \/ \E a \in Invocations : Dispatch(a)
    \/ \E f \in Futures : StartCall(f)
    \/ \E f \in Futures : Complete(f)
    \/ \E f \in Futures : Collect(f)
    \/ ReturnPair
    \/ Finish

Spec == Init /\ [][Next]_vars

\* The scheduling of process_tasks: a submitted work item is taken by a
\* worker, as_completed yields what has finished, the function returns when
\* its loop is over.  Nothing makes the provider answer.
Fairness ==
    /\ \A f \in Futures : WF_vars(StartCall(f))
    /\ \A f \in Futures : WF_vars(Collect(f))
    /\ WF_vars(ReturnPair)

LiveSpec == Spec /\ Fairness

\* The script, one run per interaction.
AppNext ==
    \/ \E key \in KeyInputs : EditApiKey(key)
    \/ \E text \in ArticleInputs : EditArticle(text)
    \/ \E pa \in PromptAInputs : EditPromptA(pa)
    \/ \E pb \in PromptBInputs : EditPromptB(pb)
    \/ \E choice \in {IdOrder[i] : i \in 1..Len(IdOrder)} : SelectModel(choice)
    \/ ClickProcess

AppSpec == Init /\ [][AppNext]_vars

\* ------------------------------------------------------------- claims

\* The provider generated text: a 2xx response whose first choice carries a
\* message with a string content.
Answered(answer) ==
    /\ answer # PyNone
    /\ answer.kind = "response"
    /\ answer.choices # PyNone
    /\ Len(answer.choices.val) > 0
    /\ answer.choices.val[1].message # PyNone
    /\ IsStr(answer.choices.val[1].message.content)

\* The provider's answer is a fault: a transport error, a non-2xx response,
\* or a 2xx body without choices, without a first choice or without a message.
Faulted(answer) ==
    /\ answer # PyNone
    /\ \/ answer.kind = "error"
       \/ /\ answer.kind = "response"
          /\ \/ answer.choices = PyNone
             \/ Len(answer.choices.val) = 0
             \/ answer.choices.val[1].message = PyNone

Slot(i) == ret.val[i]
Done(f) == futures[f].state = "FINISHED"

StartsWith(s, prefix) ==
    Len(s) >= Len(prefix) /\ SubSeq(s, 1, Len(prefix)) = prefix

\* C1: when process_tasks returns, the first position of the pair is the
\* result of the call that was made with prompt_a and the second the result
\* of the call that was made with prompt_b, whatever the arrival order.
C1_OrderInvariance ==
    pc = "returned" =>
        /\ requests[1].messages[1].content = args.prompt_a
        /\ requests[2].messages[1].content = args.prompt_b
        /\ Slot(1) = futures[1].outcome.value
        /\ Slot(2) = futures[2].outcome.value

\* The right task arrived first, and the two results differ.
C1_Witness ==
    /\ pc = "returned"
    /\ yielded = <<2, 1>>
    /\ Answered(answers[1]) /\ Answered(answers[2])
    /\ Slot(1) # Slot(2)

\* C2: a returned pair has both slots populated, and a pair exists only
\* once both calls have finished and both slots are written.
C2_BothSlotsPopulated ==
    /\ pc = "returned" =>
          /\ ret.type = "tuple"
          /\ Len(ret.val) = 2
          /\ \A i \in 1..2 : Slot(i) # PyNone /\ Slot(i).type = "dict"
    /\ ret # PyNone =>
          /\ pc = "returned"
          /\ \A f \in Futures : Done(f)
          /\ \A t \in TaskNames : results[t] # PyNone

\* Both calls failed, the right one first, and the pair is returned.
C2_Witness ==
    /\ pc = "returned"
    /\ yielded = <<2, 1>>
    /\ Faulted(answers[1]) /\ Faulted(answers[2])

\* C3: when one call fails and the other succeeds, the slot of the call that
\* succeeded holds success with the text its own request generated, and the
\* slot of the call that failed holds a failure with an error message.
C3_FailureIsolation ==
    pc = "returned" =>
        \A f \in Futures : \A g \in Futures \ {f} :
            (Faulted(answers[f]) /\ Answered(answers[g])) =>
                /\ Slot(g).success
                /\ Slot(g).content = answers[g].choices.val[1].message.content
                /\ Slot(g).content = PyStr(Generated(requests[g]))
                /\ ~Slot(f).success
                /\ IsStr(Slot(f).content)
                /\ StartsWith(Slot(f).content.val, ErrorMarker)

\* The left call failed after the right call had succeeded and been collected.
C3_Witness ==
    /\ pc = "returned"
    /\ yielded = <<2, 1>>
    /\ Faulted(answers[1])
    /\ Answered(answers[2])
    /\ Slot(2).success

\* C4: call_openrouter never raises; on every fault of the provider it
\* returns a failure with an error message, and process_tasks never raises.
C4_NeverRaises ==
    /\ pc # "raised"
    /\ \A f \in Futures :
          Done(f) =>
              /\ ~futures[f].outcome.raised
              /\ Faulted(answers[f]) =>
                    /\ ~futures[f].outcome.value.success
                    /\ IsStr(futures[f].outcome.value.content)
                    /\ StartsWith(futures[f].outcome.value.content.val, ErrorMarker)

\* One call met a 2xx body with an empty choices list, the other a 2xx body
\* whose first choice has no message, and process_tasks returned.
C4_Witness ==
    /\ pc = "returned"
    /\ answers[1] = Response(PyList(<<>>))
    /\ answers[2] = Response(PyList(<<Choice(PyNone)>>))

\* C5: a failure caused by HTTP 401 yields the invalid-key message, by 402
\* the balance message, by 429 the throttled message, by a timeout the
\* timed-out message, and every other failure yields the generic marker
\* followed by the raw message unchanged.
C5_ErrorNormalization ==
    \A f \in Futures :
        (Done(f) /\ answers[f].kind = "error" /\ ~futures[f].outcome.raised) =>
            LET content == futures[f].outcome.value.content.val
                cause   == answers[f].cause
            IN  /\ cause = "http401" => Contains(content, MsgInvalidKey)
                /\ cause = "http402" => Contains(content, MsgNoBalance)
                /\ cause = "http429" => Contains(content, MsgThrottled)
                /\ cause = "timeout" => Contains(content, MsgTimedOut)
                /\ cause = "other" => content = ErrorMarker \o answers[f].text

\* C6: every result of call_openrouter, and every slot of a returned pair,
\* has a boolean success and a string content.
C6_ResultWellTyped ==
    /\ \A f \in Futures :
          (Done(f) /\ ~futures[f].outcome.raised) =>
              /\ futures[f].outcome.value.success \in BOOLEAN
              /\ IsStr(futures[f].outcome.value.content)
    /\ pc = "returned" =>
          \A i \in 1..2 : Slot(i) # PyNone => IsStr(Slot(i).content)

\* C7: a click on the process button with a key and a non-blank article
\* ends with process_tasks called and both slots rendered.
C7_HandOff ==
    (process_btn /\ api_key # <<>> /\ Strip(article) # <<>> /\ page # "exception")
        => page = "rendered"

\* C8: a failing lookup returns the three default identifiers in their fixed
\* order and does not raise, and any two failing lookups return the same list.
C8_FallbackIdempotent ==
    (lookup.called /\ lookup.failed) =>
        /\ ~lookup.raised
        /\ Len(lookup.returned) = 3
        /\ lookup.returned =
              <<"deepseek/deepseek-chat", "anthropic/claude-3.5-sonnet", "openai/gpt-4o">>
        /\ (prev_lookup.called /\ prev_lookup.failed) =>
              prev_lookup.returned = lookup.returned
        /\ last_fallback # PyNone => last_fallback.val = lookup.returned

\* Two failing lookups in a row, of different kinds, after an earlier one.
C8_Witness ==
    /\ lookup.called /\ lookup.failed
    /\ prev_lookup.called /\ prev_lookup.failed
    /\ lookup.met.kind = "error"
    /\ prev_lookup.met.kind = "response"
    /\ last_fallback # PyNone

\* C9: once both calls have finished process_tasks returns; it returns only
\* when both have finished; and a running call is never cancelled: it stays
\* running until it finishes, whatever the other call does.
C9_Termination ==
    /\ ((pc = "waiting" /\ \A f \in Futures : Done(f)) ~> (pc = "returned"))
    /\ [](pc = "returned" => \A f \in Futures : Done(f))
    /\ [][\A f \in Futures :
            futures[f].state = "RUNNING" => futures'[f].state \in {"RUNNING", "FINISHED"}]_vars
    /\ [][(pc = "waiting" /\ \E f \in Futures : ~Done(f)) => pc' = "waiting"]_vars

\* One call has failed and has been collected while the other is still
\* running: process_tasks is still waiting.
C9_Witness ==
    /\ pc = "waiting"
    /\ Done(1) /\ Faulted(answers[1])
    /\ yielded = <<1>>
    /\ futures[2].state = "RUNNING"

\* C10: each task's call is entered at most once and sends at most one
\* request, each slot is assigned at most once, and at the return each has
\* happened exactly once, the slot holding the result of its own call.
C10_ExactlyOnce ==
    /\ \A f \in Futures : ncalls[f] <= 1 /\ nrequests[f] <= ncalls[f]
    /\ \A t \in TaskNames : nwrites[t] <= 1
    /\ Cardinality({f \in Futures : futures[f].state = "RUNNING"}) <= 2
    /\ pc = "returned" =>
          \A f \in Futures :
              /\ ncalls[f] = 1
              /\ nrequests[f] = 1
              /\ nwrites[FutureNames[f]] = 1
              /\ results[FutureNames[f]] = futures[f].outcome.value

\* Both calls failed and process_tasks returned.
C10_Witness ==
    /\ pc = "returned"
    /\ answers[1].kind = "error"
    /\ answers[2].kind = "error"
    /\ ncalls[1] = 1 /\ ncalls[2] = 1
====
